---- MODULE Spec2Model ----
(***************************************************************************)
(* Model of the voice dialogue pipeline of hasiru-mitra-ai                 *)
(* (voice_processing_system.py): the ConversationManager context store and *)
(* the VoiceProcessingSystem.process_voice_input orchestration.            *)
(*                                                                         *)
(* Conventions                                                             *)
(*  - a Python dict is a function whose DOMAIN is the set of its keys;     *)
(*  - a text is a sequence of words; Devanagari and Kannada words are      *)
(*    written as ASCII names ("hi_keet" for the Hindi word for pest);      *)
(*  - confidences are integers in thousandths (0.7 is 700);                *)
(*  - time is in seconds.                                                  *)
(***************************************************************************)
EXTENDS Integers, Sequences, FiniteSets, TLC

\* ------------------------------------------------------------------ bounds

\* Direct calls of the ConversationManager API in SpecManager.
MaxCalls == 12

\* Requests received (each by its own task, all possibly in flight at once).
MaxRequests == 2

\* Steps of the wall clock in SpecExpiry.
MaxTicks == 3

\* Words of a text passed to a component's method called directly.
MaxWords == 2
MaxPredicts == 2

\* ------------------------------------------------------- program constants

\* ConversationManager.__init__: self.session_timeout = 3600
session_timeout == 3600

\* update_context: conversation_history[-10:]
HistoryLimit == 10

\* LanguageDetector.language_keywords keys, in dict order.
Languages == {"hi", "en", "kn"}

\* ------------------------------------------------------------- dict helpers

EmptyDict == [k \in {} |-> <<>>]

\* dict.update(other): keys of other replace, the rest stay.
DictUpdate(d, other) ==
    [k \in (DOMAIN d) \cup (DOMAIN other) |->
        IF k \in DOMAIN other THEN other[k] ELSE d[k]]

Min(a, b) == IF a <= b THEN a ELSE b

\* list[-n:]
LastN(seq, n) ==
    IF Len(seq) <= n THEN seq
    ELSE SubSeq(seq, Len(seq) - n + 1, Len(seq))

\* ------------------------------------------------------ ConversationManager

SessionIds == {"call_A", "call_B"}
UserIds == {"anonymous", "farmer"}

\* ConversationContext(...) as built by get_or_create_context for a new id.
\* user_profile and farm_context are always {} and are left out.
NewContext(user_id, session_id, language) ==
    [ user_id              |-> user_id,
      session_id           |-> session_id,
      language             |-> language,
      current_intent       |-> "",
      entities             |-> EmptyDict,
      conversation_history |-> <<>> ]

\* get_or_create_context that registers a fresh context whether or not the
\* session id is known.
get_or_create_context_replaces(sessions, user_id, session_id, language) ==
    [s \in (DOMAIN sessions) \cup {session_id} |->
        IF s = session_id
        THEN NewContext(user_id, session_id, language)
        ELSE sessions[s]]

\* The store after get_or_create_context(user_id, session_id, language);
\* the context returned is the store's entry for session_id afterwards.
get_or_create_context(sessions, user_id, session_id, language) ==
    IF session_id \in DOMAIN sessions
    THEN [sessions EXCEPT ![session_id].language = language]
    ELSE [s \in (DOMAIN sessions) \cup {session_id} |->
            IF s = session_id
            THEN NewContext(user_id, session_id, language)
            ELSE sessions[s]]

\* The history entry update_context appends.
TurnRecord(timestamp, user_input, intent, entities, response) ==
    [ timestamp  |-> timestamp,
      user_input |-> user_input,
      intent     |-> intent,
      entities   |-> entities,
      response   |-> response ]

\* update_context keeping the first ten entries instead of the last ten.
update_context_keeps_oldest(sessions, session_id, intent, entities, user_input, response, timestamp) ==
    IF session_id \in DOMAIN sessions
    THEN [sessions EXCEPT
            ![session_id].current_intent = intent,
            ![session_id].entities = DictUpdate(@, entities),
            ![session_id].conversation_history =
                SubSeq(Append(@, TurnRecord(timestamp, user_input, intent,
                                            entities, response)),
                       1, IF Len(@) + 1 <= HistoryLimit THEN Len(@) + 1
                          ELSE HistoryLimit)]
    ELSE sessions

\* update_context that leaves current_intent as it was.
update_context_without_intent(sessions, session_id, intent, entities, user_input, response, timestamp) ==
    IF session_id \in DOMAIN sessions
    THEN [sessions EXCEPT
            ![session_id].entities = DictUpdate(@, entities),
            ![session_id].conversation_history =
                LastN(Append(@, TurnRecord(timestamp, user_input, intent,
                                           entities, response)),
                      HistoryLimit)]
    ELSE sessions

\* update_context registering a context for an unknown session id.
update_context_creates(sessions, session_id, intent, entities, user_input, response, timestamp) ==
    LET known == get_or_create_context(sessions, "anonymous", session_id, "en")
    IN  [known EXCEPT
            ![session_id].current_intent = intent,
            ![session_id].entities = DictUpdate(@, entities),
            ![session_id].conversation_history =
                LastN(Append(@, TurnRecord(timestamp, user_input, intent,
                                           entities, response)),
                      HistoryLimit)]

\* The store after update_context(session_id, intent, entities, user_input,
\* response) called at time timestamp.
update_context(sessions, session_id, intent, entities, user_input, response, timestamp) ==
    IF session_id \in DOMAIN sessions
    THEN [sessions EXCEPT
            ![session_id].current_intent = intent,
            ![session_id].entities = DictUpdate(@, entities),
            ![session_id].conversation_history =
                LastN(Append(@, TurnRecord(timestamp, user_input, intent,
                                           entities, response)),
                      HistoryLimit)]
    ELSE sessions

\* ------------------------------------------------------------------- texts

\* A text is a sequence of words. `keyword in text` is a substring test: a
\* keyword occurs in a text when it equals a word of the text or is a proper
\* substring of one.  The pairs <<keyword, word>> below are the proper
\* substring relations between the keywords and the words of the model.
ProperSubstrings ==
    { <<"crop", "crops">>, <<"pest", "pests">>, <<"farm", "farming">>,
      <<"hi_khet", "hi_kheti">>, <<"kn_bele", "kn_beleyuva">>,
      <<"kn_keeta", "kn_keetaka">> }

Occurs(keyword, text) ==
    \E i \in 1..Len(text) :
        text[i] = keyword \/ <<keyword, text[i]>> \in ProperSubstrings

\* str.lower() on a word: the model's words with an upper-case letter.
Lower(word) ==
    IF word = "Pest" THEN "pest" ELSE IF word = "I" THEN "i" ELSE word

RECURSIVE Without(_, _)
\* The words of text that are not in the set drop, in order.
Without(text, drop) ==
    IF text = <<>> THEN <<>>
    ELSE IF Head(text) \in drop THEN Without(Tail(text), drop)
         ELSE <<Head(text)>> \o Without(Tail(text), drop)

None == "None"

\* Python's `x or default` for an optional string.
OrElse(x, default) == IF x = None \/ x = "" THEN default ELSE x

\* -------------------------------------------------------- LanguageDetector

LanguageOrder == <<"hi", "en", "kn">>

language_keywords ==
    [ hi |-> {"hi_fasal", "hi_khet", "hi_beej", "hi_paani", "hi_urvarak",
              "hi_keet", "hi_rog", "hi_mitti"},
      en |-> {"crop", "farm", "seed", "water", "fertilizer", "pest",
              "disease", "soil"},
      kn |-> {"kn_bele", "kn_hola", "kn_beeja", "kn_neeru", "kn_gobbara",
              "kn_keeta", "kn_roga", "kn_mannu"} ]

\* What langdetect.detect(text) does: return a language code (any code, also
\* one outside the supported set) or raise.
LangDetectResults == {"hi", "en", "kn", "ta", "raise"}

\* _detect_from_text returning langdetect's code without the mapping to the
\* supported languages.
_detect_from_text_unmapped(text, langdetect) ==
    LET hits == {i \in 1..3 :
                    \E k \in language_keywords[LanguageOrder[i]] : Occurs(k, text)}
    IN  IF hits # {}
        THEN LanguageOrder[CHOOSE i \in hits : \A j \in hits : i <= j]
        ELSE IF langdetect = "raise" THEN "en"
        ELSE langdetect

\* _detect_from_text; langdetect is the result of langdetect.detect(text).
\* A raise of langdetect is caught and yields 'en'.
_detect_from_text(text, langdetect) ==
    LET hits == {i \in 1..3 :
                    \E k \in language_keywords[LanguageOrder[i]] : Occurs(k, text)}
    IN  IF hits # {}
        THEN LanguageOrder[CHOOSE i \in hits : \A j \in hits : i <= j]
        ELSE IF langdetect = "raise" THEN "en"
        ELSE IF langdetect \in {"hi", "en", "kn"} THEN langdetect
        ELSE "en"

\* _detect_from_audio is a placeholder returning None.
_detect_from_audio == None

\* detect_language letting the audio-based result win when the two differ.
detect_language_prefers_audio(text, langdetect, has_audio) ==
    LET text_lang == _detect_from_text(text, langdetect)
    IN  IF has_audio
        THEN IF _detect_from_audio = text_lang THEN text_lang
             ELSE _detect_from_audio
        ELSE text_lang

\* detect_language(text, audio_features); has_audio says whether
\* audio_features was passed.
detect_language(text, langdetect, has_audio) ==
    LET text_lang == _detect_from_text(text, langdetect)
    IN  IF has_audio
        THEN IF _detect_from_audio = text_lang THEN text_lang ELSE text_lang
        ELSE text_lang

\* ---------------------------------------------------------- MultilingualASR

\* Number of characters of a word, for Azure's confidence heuristic.
Chars(word) ==
    CASE word = "a" -> 1 [] word = "in" -> 2 [] word = "the" -> 3
      [] word = "crop" -> 4 [] word = "pest" -> 4 [] word = "rice" -> 4
      [] word = "seed" -> 4 [] word = "farm" -> 4 [] word = "soil" -> 4
      [] word = "hello" -> 5 [] word = "water" -> 5 [] word = "crops" -> 5
      [] word = "hi_keet" -> 3
      [] OTHER -> 6

RECURSIVE CharLen(_)
\* len(text) of a text whose words are separated by single spaces.
CharLen(text) ==
    IF text = <<>> THEN 0
    ELSE IF Len(text) = 1 THEN Chars(text[1])
    ELSE Chars(Head(text)) + 1 + CharLen(Tail(text))

\* _azure_transcribe without its try/except: an exception of the SDK leaves
\* the function.
_azure_transcribe_uncaught(azure) ==
    IF azure.result = "recognized"
    THEN [raised |-> FALSE, text |-> azure.text,
          confidence |-> Min(900, CharLen(azure.text) * 10 + 500)]
    ELSE IF azure.result = "raise"
    THEN [raised |-> TRUE, text |-> <<>>, confidence |-> 0]
    ELSE [raised |-> FALSE, text |-> <<>>, confidence |-> 0]

\* _azure_transcribe: (text, confidence).  azure.result is "raise" (the SDK
\* raised, which is caught), "no_match" (reason is not RecognizedSpeech) or
\* "recognized".
_azure_transcribe(azure) ==
    IF azure.result = "recognized"
    THEN [raised |-> FALSE, text |-> azure.text,
          confidence |-> Min(900, CharLen(azure.text) * 10 + 500)]
    ELSE [raised |-> FALSE, text |-> <<>>, confidence |-> 0]

\* What transcribe's `except Exception` returns.
TranscribeFailed(language) ==
    [raised |-> FALSE, text |-> <<>>, language |-> language, confidence |-> 0]

\* transcribe whose failure result carries the language_hint it was passed
\* ('auto' when the request has none) instead of 'en'.
transcribe_failure_keeps_auto(asr) ==
    IF asr.preprocess = "raise" \/ asr.whisper = "raise"
    THEN TranscribeFailed("auto")
    ELSE LET detected_lang == detect_language(asr.text, asr.langdetect, FALSE)
             backup == _azure_transcribe(asr.azure)
         IN  IF asr.confidence < 700 /\ asr.azure_key
             THEN IF backup.raised THEN TranscribeFailed("auto")
                  ELSE IF backup.confidence > asr.confidence
                  THEN [raised |-> FALSE, text |-> backup.text,
                        language |-> detected_lang,
                        confidence |-> backup.confidence]
                  ELSE [raised |-> FALSE, text |-> asr.text,
                        language |-> detected_lang,
                        confidence |-> asr.confidence]
             ELSE [raised |-> FALSE, text |-> asr.text,
                   language |-> detected_lang, confidence |-> asr.confidence]

\* transcribe taking the secondary result also when its confidence only
\* equals the primary's.
transcribe_replaces_on_equal(asr) ==
    IF asr.preprocess = "raise" \/ asr.whisper = "raise"
    THEN TranscribeFailed("en")
    ELSE LET detected_lang == detect_language(asr.text, asr.langdetect, FALSE)
             backup == _azure_transcribe(asr.azure)
         IN  IF asr.confidence < 700 /\ asr.azure_key
             THEN IF backup.raised THEN TranscribeFailed("en")
                  ELSE IF backup.confidence >= asr.confidence
                  THEN [raised |-> FALSE, text |-> backup.text,
                        language |-> detected_lang,
                        confidence |-> backup.confidence]
                  ELSE [raised |-> FALSE, text |-> asr.text,
                        language |-> detected_lang,
                        confidence |-> asr.confidence]
             ELSE [raised |-> FALSE, text |-> asr.text,
                   language |-> detected_lang, confidence |-> asr.confidence]

\* transcribe(audio_data, language_hint): (text, detected_language,
\* confidence).  asr says what the engines do for this audio:
\*   asr.preprocess  "ok" or "raise"   (_preprocess_audio)
\*   asr.whisper     "ok" or "raise"   (_whisper_transcribe)
\*   asr.text, asr.confidence          Whisper's transcription and confidence
\*   asr.langdetect                    langdetect's result on asr.text
\*   asr.azure_key                     whether AZURE_SPEECH_KEY is set
\*   asr.azure                         what Azure does
\* Every exception raised inside, also one leaving _azure_transcribe, is
\* caught and yields ("", "en", 0.0).
transcribe(asr) ==
    IF asr.preprocess = "raise" \/ asr.whisper = "raise"
    THEN TranscribeFailed("en")
    ELSE LET detected_lang == detect_language(asr.text, asr.langdetect, FALSE)
             backup == _azure_transcribe(asr.azure)
         IN  IF asr.confidence < 700 /\ asr.azure_key
             THEN IF backup.raised THEN TranscribeFailed("en")
                  ELSE IF backup.confidence > asr.confidence
                  THEN [raised |-> FALSE, text |-> backup.text,
                        language |-> detected_lang,
                        confidence |-> backup.confidence]
                  ELSE [raised |-> FALSE, text |-> asr.text,
                        language |-> detected_lang,
                        confidence |-> asr.confidence]
             ELSE [raised |-> FALSE, text |-> asr.text,
                   language |-> detected_lang, confidence |-> asr.confidence]

\* ---------------------------------------------------------- MultilingualNLU

\* multilingual_keywords, in dict order; each keyword list as a sequence.
IntentOrder == <<"crop_advice", "pest_disease">>

multilingual_keywords ==
    [ crop_advice |->
        [ hi |-> <<"hi_fasal", "hi_buaai", "hi_kheti", "hi_ugaana">>,
          en |-> <<"crop", "planting", "farming", "growing">>,
          kn |-> <<"kn_bele", "kn_bittane", "kn_krishi", "kn_beleyuva">> ],
      pest_disease |->
        [ hi |-> <<"hi_keet", "hi_rog", "hi_bimari", "hi_nuksaan">>,
          en |-> <<"pest", "disease", "insect", "damage">>,
          kn |-> <<"kn_keeta", "kn_roga", "kn_keetaka", "kn_haani">> ] ]

\* Filler words _preprocess_text removes, per language.
FillerWords ==
    [ hi |-> {"hi_ji", "hi_haan", "hi_nahin", "hi_kya", "hi_kaise"},
      kn |-> {"kn_haudu", "kn_illa", "kn_enu", "kn_hege"} ]

\* _preprocess_text(text, language)
_preprocess_text(text, language) ==
    LET kept == IF language \in DOMAIN FillerWords
                THEN Without(text, FillerWords[language])
                ELSE text
    IN  [i \in 1..Len(kept) |-> Lower(kept[i])]

\* lang_keywords.get(language, lang_keywords.get('en', []))
KeywordsFor(intent, language) ==
    IF language \in DOMAIN multilingual_keywords[intent]
    THEN multilingual_keywords[intent][language]
    ELSE multilingual_keywords[intent]["en"]

\* The intent_scores dict of _classify_intent after the context adjustment,
\* in thousandths: hits / len(keywords), times 1.2 for the current intent.
IntentScores(text, language, current_intent) ==
    LET hits(intent) ==
            Cardinality({k \in 1..Len(KeywordsFor(intent, language)) :
                            Occurs(KeywordsFor(intent, language)[k], text)})
        scored == {i \in 1..Len(IntentOrder) : hits(IntentOrder[i]) > 0}
        raw(i) == (hits(IntentOrder[i]) * 1000)
                      \div Len(KeywordsFor(IntentOrder[i], language))
    IN  [i \in scored |->
            IF current_intent # "" /\ IntentOrder[i] = current_intent
            THEN (raw(i) * 12) \div 10
            ELSE raw(i)]

\* _classify_intent that takes, among the intents of the highest score, the
\* last one in dict order.
_classify_intent_last_of_ties(text, language, current_intent, classifier) ==
    LET scores == IntentScores(text, language, current_intent)
    IN  IF DOMAIN scores # {}
        THEN LET best == CHOOSE i \in DOMAIN scores :
                            /\ \A j \in DOMAIN scores : scores[j] <= scores[i]
                            /\ \A j \in DOMAIN scores :
                                  scores[j] = scores[i] => i >= j
             IN  [intent |-> IntentOrder[best],
                  confidence |-> Min(900, scores[best])]
        ELSE IF classifier = "ok"
             THEN [intent |-> "general_query", confidence |-> 600]
             ELSE [intent |-> "general_query", confidence |-> 500]

\* _classify_intent that returns the winning score as it stands, without
\* min(0.9, ...).
_classify_intent_unclamped(text, language, current_intent, classifier) ==
    LET scores == IntentScores(text, language, current_intent)
    IN  IF DOMAIN scores # {}
        THEN LET best == CHOOSE i \in DOMAIN scores :
                            /\ \A j \in DOMAIN scores : scores[j] <= scores[i]
                            /\ \A j \in DOMAIN scores :
                                  scores[j] = scores[i] => i <= j
             IN  [intent |-> IntentOrder[best], confidence |-> scores[best]]
        ELSE IF classifier = "ok"
             THEN [intent |-> "general_query", confidence |-> 600]
             ELSE [intent |-> "general_query", confidence |-> 500]

\* _classify_intent(text, language, context): (intent, confidence).
\* classifier is what self.intent_classifier(text) does: "ok" or "raise".
_classify_intent(text, language, current_intent, classifier) ==
    LET scores == IntentScores(text, language, current_intent)
    IN  IF DOMAIN scores # {}
        THEN \* max(intent_scores, key=intent_scores.get): the first key, in
             \* insertion order, among those of the highest score
             LET best == CHOOSE i \in DOMAIN scores :
                            /\ \A j \in DOMAIN scores : scores[j] <= scores[i]
                            /\ \A j \in DOMAIN scores :
                                  scores[j] = scores[i] => i <= j
             IN  [intent |-> IntentOrder[best],
                  confidence |-> Min(900, scores[best])]
        ELSE IF classifier = "ok"
             THEN [intent |-> "general_query", confidence |-> 600]
             ELSE [intent |-> "general_query", confidence |-> 500]

\* Crop and season names of the regular expressions of
\* _extract_agricultural_entities, per language (matched as whole words).
crop_patterns ==
    [ hi |-> {"hi_dhaan", "hi_gehun", "hi_makka", "hi_tamatar", "hi_pyaaz",
              "hi_kapaas", "hi_ganna", "hi_haldi", "hi_mirch"},
      en |-> {"rice", "wheat", "corn", "tomato", "onion", "cotton",
              "sugarcane", "turmeric", "chili"},
      kn |-> {"kn_akki", "kn_godhi", "kn_jola", "kn_tomato", "kn_eerulli",
              "kn_kapaasu", "kn_kabbu", "kn_arishina", "kn_menasinakayi"} ]

season_patterns ==
    [ hi |-> {"hi_kharif", "hi_rabi", "hi_zaid", "hi_monsoon"},
      en |-> {"kharif", "rabi", "zaid", "monsoon", "summer", "winter"},
      kn |-> {"kn_kharif", "kn_rabi", "kn_zaid", "kn_monsoon"} ]

\* patterns.get(language, patterns['en'])
PatternFor(patterns, language) ==
    IF language \in DOMAIN patterns THEN patterns[language] ELSE patterns["en"]

RECURSIVE Matches(_, _, _)
\* [{'value': w, 'confidence': c} for w in re.findall(pattern, text)]
Matches(text, pattern, confidence) ==
    IF text = <<>> THEN <<>>
    ELSE IF Head(text) \in pattern
         THEN <<[value |-> Head(text), confidence |-> confidence]>>
                  \o Matches(Tail(text), pattern, confidence)
         ELSE Matches(Tail(text), pattern, confidence)

\* _extract_agricultural_entities(text, language, intent).  The model's
\* words hold no number followed by a unit, so 'quantities' is never set.
_extract_agricultural_entities(text, language) ==
    LET crops == Matches(text, PatternFor(crop_patterns, language), 800)
        seasons == Matches(text, PatternFor(season_patterns, language), 800)
        keys == (IF crops # <<>> THEN {"crops"} ELSE {})
                    \cup (IF seasons # <<>> THEN {"seasons"} ELSE {})
    IN  [k \in keys |-> IF k = "crops" THEN crops ELSE seasons]

\* _extract_entities(text, language, intent).  ner is what the NER pipeline
\* does: "raise", or "ok" with no entity above the 0.5 threshold.  A raise is
\* caught before the domain entities are extracted and leaves {}.
_extract_entities(text, language, ner) ==
    IF ner = "raise" THEN EmptyDict
    ELSE DictUpdate(EmptyDict, _extract_agricultural_entities(text, language))

\* understand(text, language, context): (intent, entities, confidence).
\* nlu says what the models do:
\*   nlu.failure     TRUE when a step outside the inner handlers raises,
\*                   which understand catches
\*   nlu.classifier  the fallback intent classifier: "ok" or "raise"
\*   nlu.ner         the NER pipeline: "ok" or "raise"
understand(text, language, current_intent, nlu) ==
    IF nlu.failure
    THEN [intent |-> "general_query", entities |-> EmptyDict,
          confidence |-> 500]
    ELSE LET cleaned_text == _preprocess_text(text, language)
             classified == _classify_intent(cleaned_text, language,
                                            current_intent, nlu.classifier)
         IN  [intent |-> classified.intent,
              entities |-> _extract_entities(cleaned_text, language, nlu.ner),
              confidence |-> (classified.confidence * 8) \div 10 + 200]

\* ------------------------------------------------- response generation

\* _load_response_templates: template name -> set of languages it has.  A
\* response text is written <<template, language>>, or
\* <<template, language, crop>> for an interpolated sentence.
response_templates ==
    [ greeting     |-> {"hi", "en", "kn"},
      crop_advice  |-> {"hi", "en", "kn"},
      pest_disease |-> {"hi", "en", "kn"},
      error        |-> {"hi", "en", "kn"} ]

\* self.response_templates[name][language]: raises KeyError when missing.
TemplateLookup(name, language) ==
    IF name \in DOMAIN response_templates /\ language \in response_templates[name]
    THEN [raised |-> FALSE, text |-> <<name, language>>]
    ELSE [raised |-> TRUE, text |-> <<"KeyError">>]

\* responses.get(language, responses['en']) of a local three-language dict.
LocalLookup(name, language) ==
    [raised |-> FALSE,
     text |-> <<name, IF language \in {"hi", "en", "kn"} THEN language ELSE "en">>]

\* _generate_crop_advice_response.  entities['crops'][0] raises IndexError
\* on an empty list.
_generate_crop_advice_response(entities, language) ==
    IF "crops" \in DOMAIN entities
    THEN IF entities["crops"] = <<>>
         THEN [raised |-> TRUE, text |-> <<"IndexError">>]
         ELSE [raised |-> FALSE,
               text |-> <<"crop_advice_for",
                          IF language \in {"hi", "en", "kn"} THEN language
                          ELSE "en",
                          entities["crops"][1].value>>]
    ELSE TemplateLookup("crop_advice", language)

\* _generate_response(intent, entities, context, language); history is
\* context.conversation_history when it runs.
_generate_response(intent, entities, history, language) ==
    IF intent = "greeting" \/ history = <<>>
    THEN TemplateLookup("greeting", language)
    ELSE IF intent = "crop_advice"
    THEN _generate_crop_advice_response(entities, language)
    ELSE IF intent = "pest_disease" THEN LocalLookup("pest", language)
    ELSE IF intent = "weather" THEN LocalLookup("weather", language)
    ELSE IF intent = "market_price" THEN LocalLookup("market", language)
    ELSE LocalLookup("general", language)

\* synthesize without its try/except: an exception of the SDK leaves it.
synthesize_propagates(tts) ==
    [raised |-> tts = "raise", audio |-> IF tts = "ok" THEN "audio" ELSE ""]

\* MultilingualTTS.synthesize(text, language).  tts is what Azure does:
\* "ok", "failed" (the result's reason is not SynthesizingAudioCompleted) or
\* "raise" (caught: b"").
synthesize(tts) ==
    [raised |-> FALSE, audio |-> IF tts = "ok" THEN "audio" ELSE ""]

\* A VoiceResponse (response_audio_url is always "" and processing_time_ms
\* is not modelled).  context_updated is context.__dict__, the live
\* attribute dict of the stored context: it is written as the session id it
\* belongs to, and None for the {} of an error response.
VoiceResponse(text, language, intent, entities, response_text, confidence, context) ==
    [ raised            |-> FALSE,
      transcribed_text  |-> text,
      detected_language |-> language,
      intent            |-> intent,
      entities          |-> entities,
      response_text     |-> response_text,
      confidence_score  |-> confidence,
      context_updated   |-> context ]

\* An exception leaving a function instead of a VoiceResponse.
Raised == [VoiceResponse(<<>>, "", "", EmptyDict, <<>>, 0, None)
              EXCEPT !.raised = TRUE]

\* _create_error_response with a template key that does not exist.
_create_error_response_wrong_key(language) ==
    IF "errors" \notin DOMAIN response_templates
    THEN Raised
    ELSE VoiceResponse(<<>>, language, "error", EmptyDict,
                       <<"errors", language>>, 0, None)

\* _create_error_response(error_message, language):
\* self.response_templates['error'].get(language, ...['error']['en'])
_create_error_response(language) ==
    IF "error" \notin DOMAIN response_templates
    THEN Raised
    ELSE VoiceResponse(<<>>, language, "error", EmptyDict,
                       <<"error", IF language \in response_templates["error"]
                                  THEN language ELSE "en">>,
                       0, None)

\* ------------------------------------------------------ PestDetectionModel

\* _load_treatment_database(): pest name -> treatment lists, a treatment
\* written by its name.
_load_treatment_database ==
    [ Aphids |->
        [ immediate  |-> <<"Neem oil spray", "Soap water spray">>,
          preventive |-> <<"Plant marigold as companion crop",
                           "Encourage ladybird beetles",
                           "Avoid excessive nitrogen fertilization">>,
          biological |-> <<"Chrysoperla carnea", "Aphidius colemani">> ],
      Whitefly |->
        [ immediate  |-> <<"Yellow sticky traps", "Reflective mulch">>,
          preventive |-> <<"Remove weed hosts", "Use resistant varieties",
                           "Proper plant spacing">>,
          biological |-> <<"Encarsia formosa", "Eretmocerus eremicus">> ] ]

\* The default of treatment_database.get(pest_name, {...}), built anew at
\* each call.
DefaultTreatments ==
    [ immediate  |-> <<"Consult agricultural expert">>,
      preventive |-> <<"Maintain field sanitation", "Monitor regularly">>,
      biological |-> <<>> ]

\* The adjustments of _generate_treatment_recommendations applied to the
\* lists of base: two treatments for a high or critical severity, one
\* prevention measure above 80 % humidity, one treatment above 10 mm rain.
Adjusted(base, severity, weather_conditions) ==
    LET severe == IF severity \in {"high", "critical"}
                  THEN <<"Increase spray frequency",
                         "Consider multiple treatment methods">>
                  ELSE <<>>
        humid == IF weather_conditions.humidity > 80
                 THEN <<"Improve air circulation to reduce humidity">>
                 ELSE <<>>
        rainy == IF weather_conditions.rainfall > 10
                 THEN <<"Apply treatments after rain stops">>
                 ELSE <<>>
    IN  [ immediate  |-> base.immediate \o severe \o rainy,
          preventive |-> base.preventive \o humid,
          biological |-> base.biological ]

\* _generate_treatment_recommendations(pest_name, severity, detection_input)
\* on the database db: the dict returned, and the database afterwards.
\* base_treatments.copy() is shallow, so for a pest the database has, the
\* lists that .extend and .append change are the database's own lists.
_generate_treatment_recommendations(db, pest_name, severity, weather_conditions) ==
    IF pest_name \in DOMAIN db
    THEN LET adjusted_treatments ==
                 Adjusted(db[pest_name], severity, weather_conditions)
         IN  [ treatments |-> adjusted_treatments,
               database   |-> [db EXCEPT ![pest_name] = adjusted_treatments] ]
    ELSE [ treatments |-> Adjusted(DefaultTreatments, severity,
                                   weather_conditions),
           database   |-> db ]

RECURSIVE PredictResults(_, _, _, _)
\* The loop of predict over the pests detected on an image, most confident
\* first: the PestDetectionResults appended and the database afterwards.
PredictResults(db, pests, severity, weather_conditions) ==
    IF pests = <<>> THEN [results |-> <<>>, database |-> db]
    ELSE LET first == _generate_treatment_recommendations(
                          db, Head(pests), severity, weather_conditions)
             rest == PredictResults(first.database, Tail(pests), severity,
                                    weather_conditions)
         IN  [ results |->
                 << [ pest_disease_name   |-> Head(pests),
                      severity_level      |-> severity,
                      organic_treatments  |-> first.treatments.immediate,
                      prevention_measures |-> first.treatments.preventive ] >>
                     \o rest.results,
               database |-> rest.database ]

\* ------------------------------------------------------------------- state

VARIABLES
    active_sessions,  \* ConversationManager.active_sessions of each
                      \* VoiceProcessingSystem instance: system -> dict
    now,              \* the wall clock, datetime.now(), in seconds
    calls,            \* number of direct ConversationManager calls made
    pc,               \* where each request's process_voice_input task is
    req,              \* each request's VoiceInput and local variables
    response,         \* the VoiceResponse each finished request returned
    applied,          \* history variable: per session id, every turn record
                      \* update_context has appended on system 0, in order,
                      \* with the request that made the call (0: a direct
                      \* call of the ConversationManager)
    transcript,       \* history variable: what asr.transcribe returned to
                      \* each request: "none" yet, "empty" text or a "text"
    last_access,      \* history variable: per session id, when its context
                      \* on system 0 was last loaded or updated (-1: never)
    call,             \* the last direct call of a component's method: its
                      \* name, arguments and result (NoCall: none yet)
    treatment_database \* PestDetectionModel.treatment_database: pest name
                      \* -> treatment lists

vars == <<active_sessions, now, calls, pc, req, response, applied, transcript,
          last_access, call, treatment_database>>

\* System 0 is the long-lived VoiceProcessingSystem instance; system r > 0 is
\* the instance handle_twilio_webhook constructs for request r.
Shared == 0

Requests == 1..MaxRequests

Systems == {Shared} \cup Requests

\* ----------------------------------- ConversationManager called directly

\* Arguments a client passes to update_context: intent, entities,
\* user_input, response.
ManagerTurns ==
    { [ intent     |-> "crop_advice",
        entities   |-> [k \in {"crops"} |->
                           <<[value |-> "rice", confidence |-> 800]>>],
        user_input |-> <<"crop", "rice">>,
        response   |-> <<"crop_advice_for", "en", "rice">> ],
      [ intent     |-> "pest_disease",
        entities   |-> [k \in {"crops"} |->
                           <<[value |-> "tomato", confidence |-> 800]>>],
        user_input |-> <<"pest", "tomato">>,
        response   |-> <<"pest_disease", "en">> ] }

\* Languages a client passes to get_or_create_context.
ManagerLanguages == {"en", "hi"}

\* conversation_manager.get_or_create_context(user_id, session_id, language)
CallGetOrCreate ==
    /\ calls < MaxCalls
    /\ \E u \in UserIds, s \in SessionIds, l \in ManagerLanguages :
          active_sessions' = [active_sessions EXCEPT
              ![Shared] = get_or_create_context(@, u, s, l)]
    /\ calls' = calls + 1
    /\ UNCHANGED <<now, applied, pc, req, response, transcript, last_access, call, treatment_database>>

\* conversation_manager.update_context(session_id, intent, entities,
\* user_input, response)
CallUpdateOn(s, t) ==
    /\ calls < MaxCalls
    /\ active_sessions' = [active_sessions EXCEPT
          ![Shared] = update_context(@, s, t.intent, t.entities,
                                     t.user_input, t.response, now)]
    /\ applied' =
          IF s \in DOMAIN active_sessions[Shared]
          THEN [applied EXCEPT ![s] = Append(@,
                  [request |-> 0,
                   record |-> TurnRecord(now, t.user_input, t.intent,
                                         t.entities, t.response)])]
          ELSE applied
    /\ calls' = calls + 1
    /\ UNCHANGED <<now, pc, req, response, transcript, last_access, call, treatment_database>>

CallUpdate == \E s \in SessionIds, t \in ManagerTurns : CallUpdateOn(s, t)

\* A request before it is received.
NoRequest ==
    [ language_hint            |-> None,
      user_id                  |-> None,
      call_sid                 |-> None,
      system                   |-> Shared,
      transcribed_text         |-> <<>>,
      detected_language        |-> "",
      transcription_confidence |-> 0,
      intent                   |-> "",
      entities                 |-> EmptyDict,
      nlu_confidence           |-> 0,
      response_text            |-> <<>> ]

NoResponse == VoiceResponse(<<>>, "", "", EmptyDict, <<>>, 0, None)

\* No component method has been called directly.
NoCall == [fn |-> "none"]

Init ==
    /\ active_sessions = [y \in Systems |-> EmptyDict]
    /\ now = 0
    /\ calls = 0
    /\ pc = [r \in Requests |-> "idle"]
    /\ req = [r \in Requests |-> NoRequest]
    /\ response = [r \in Requests |-> NoResponse]
    /\ applied = [s \in SessionIds |-> <<>>]
    /\ transcript = [r \in Requests |-> "none"]
    /\ last_access = [s \in SessionIds |-> -1]
    /\ call = NoCall
    /\ treatment_database = _load_treatment_database

NextManager == CallGetOrCreate \/ CallUpdate

SpecManager == Init /\ [][NextManager]_vars

\* ------------------------------------------------- process_voice_input
\*
\* process_voice_input is a coroutine: it runs without interruption from one
\* await to the next, and other tasks run while it is suspended at
\*   await self.asr.transcribe(...)   (pc = "received")
\*   await self.tts.synthesize(...)   (pc = "response_generated")
\* _generate_response is awaited too, but it reads the context and picks its
\* template before anything in it could suspend, so it is part of the step
\* that follows the transcription.

\* The VoiceInput values callers pass.  Every one carries a call_sid (the
\* f"session_{timestamp}" ids of inputs without one are not modelled).  The
\* hint 'ta' is a code outside the supported languages.
VoiceInputs ==
    { [language_hint |-> None, user_id |-> "farmer", call_sid |-> "call_A"],
      [language_hint |-> "hi", user_id |-> None,     call_sid |-> "call_A"],
      [language_hint |-> "ta", user_id |-> None,     call_sid |-> "call_B"] }

NoAzure == [result |-> "raise", text |-> <<>>]

\* What the speech engines do for a request's audio (see transcribe).
AsrOutcomes ==
    { \* the audio cannot be decoded
      [preprocess |-> "raise", whisper |-> "ok", text |-> <<>>,
       confidence |-> 0, langdetect |-> "raise", azure_key |-> FALSE,
       azure |-> NoAzure],
      \* Whisper generates nothing: confidence 0.5, and langdetect raises
      [preprocess |-> "ok", whisper |-> "ok", text |-> <<>>,
       confidence |-> 500, langdetect |-> "raise", azure_key |-> FALSE,
       azure |-> NoAzure],
      \* a Hindi utterance
      [preprocess |-> "ok", whisper |-> "ok", text |-> <<"hi_keet">>,
       confidence |-> 900, langdetect |-> "hi", azure_key |-> FALSE,
       azure |-> NoAzure],
      \* an English utterance naming two intents' keywords and a crop
      [preprocess |-> "ok", whisper |-> "ok",
       text |-> <<"crop", "pest", "rice">>,
       confidence |-> 900, langdetect |-> "en", azure_key |-> FALSE,
       azure |-> NoAzure],
      \* a low-confidence transcription that Azure's replaces; the text has
      \* no keyword and langdetect takes Whisper's for Tamil
      [preprocess |-> "ok", whisper |-> "ok", text |-> <<"hello", "hello">>,
       confidence |-> 400, langdetect |-> "ta", azure_key |-> TRUE,
       azure |-> [result |-> "recognized", text |-> <<"hello">>]] }

\* What the NLU models do for a request (see understand).
NluOutcomes ==
    { [failure |-> FALSE, classifier |-> "ok",    ner |-> "ok"],
      [failure |-> FALSE, classifier |-> "raise", ner |-> "raise"],
      [failure |-> TRUE,  classifier |-> "ok",    ner |-> "ok"] }

TtsOutcomes == {"ok", "failed", "raise"}

\* The context object a request holds after get_or_create_context: the
\* entry of its system's store, shared with every other holder.
ContextOf(r) == active_sessions[req[r].system][req[r].call_sid]

\* `except Exception as e: return self._create_error_response(str(e),
\*  voice_input.language_hint or 'en')`
ExceptHandler(language_hint) == _create_error_response(OrElse(language_hint, "en"))

\* `return self._create_error_response("Transcription failed",
\*  detected_language)` inside the try block: an exception it raises reaches
\* the except handler.
TranscriptionFailed(detected_language, language_hint) ==
    LET first == _create_error_response(detected_language)
    IN  IF first.raised THEN ExceptHandler(language_hint) ELSE first

\* A return that starts the request over when the result is an error
\* response.
Return_retries(r, result) ==
    /\ pc' = [pc EXCEPT ![r] = IF result.raised THEN "raised"
                               ELSE IF result.intent = "error" THEN "received"
                               ELSE "done"]
    /\ response' = [response EXCEPT ![r] = result]
    /\ req' = IF result.intent = "error" THEN req
              ELSE [req EXCEPT ![r] = NoRequest]

\* The task of request r ends returning (or raising) result; its frame, with
\* the VoiceInput and the local variables, is gone.
Return(r, result) ==
    /\ pc' = [pc EXCEPT ![r] = IF result.raised THEN "raised"
                               ELSE IF result.intent = "error" THEN "error"
                               ELSE "done"]
    /\ response' = [response EXCEPT ![r] = result]
    /\ req' = [req EXCEPT ![r] = NoRequest]

\* Requests are received in the order of their numbers.
NextToArrive(r) ==
    /\ pc[r] = "idle"
    /\ \A q \in Requests : q < r => pc[q] # "idle"

\* A caller starts process_voice_input(voice_input) on the shared system;
\* the task suspends in asr.transcribe.
process_voice_input(r) ==
    /\ NextToArrive(r)
    /\ \E v \in VoiceInputs :
          req' = [req EXCEPT ![r] =
                    [NoRequest EXCEPT !.language_hint = v.language_hint,
                                      !.user_id = v.user_id,
                                      !.call_sid = v.call_sid,
                                      !.system = Shared]]
    /\ pc' = [pc EXCEPT ![r] = "received"]
    /\ UNCHANGED <<active_sessions, now, calls, response, applied, transcript,
                   last_access, call, treatment_database>>

\* A request path that loads the context before it looks at the text.
StoreAfterEmptyTranscription_loads(sessions, user_id, session_id, language) ==
    get_or_create_context(sessions, user_id, session_id, language)

\* The store of a system after a request with an empty transcription: the
\* error response is returned before get_or_create_context is reached.
StoreAfterEmptyTranscription(sessions, user_id, session_id, language) ==
    sessions

\* asr.transcribe returns.  Empty text ends the request with the error
\* response; otherwise the context is loaded, the text understood and the
\* response text generated, and the task suspends in tts.synthesize.
Transcribed(r) ==
    /\ pc[r] = "received"
    /\ \E asr \in AsrOutcomes, nlu \in NluOutcomes :
          LET t == transcribe(asr)
              system == req[r].system
              loaded == get_or_create_context(
                            active_sessions[system],
                            OrElse(req[r].user_id, "anonymous"),
                            req[r].call_sid, t.language)
              context == loaded[req[r].call_sid]
              u == understand(t.text, t.language, context.current_intent, nlu)
              g == _generate_response(u.intent, u.entities,
                                      context.conversation_history, t.language)
          IN  IF t.raised
              THEN /\ Return(r, ExceptHandler(req[r].language_hint))
                   /\ transcript' = [transcript EXCEPT ![r] = "raised"]
                   /\ UNCHANGED <<active_sessions, last_access>>
              ELSE IF t.text = <<>>
              THEN /\ Return(r, TranscriptionFailed(t.language,
                                                    req[r].language_hint))
                   /\ transcript' = [transcript EXCEPT ![r] = "empty"]
                   /\ active_sessions' = [active_sessions EXCEPT ![system] =
                          StoreAfterEmptyTranscription(
                              @, OrElse(req[r].user_id, "anonymous"),
                              req[r].call_sid, t.language)]
                   /\ UNCHANGED last_access
              ELSE /\ active_sessions' = [active_sessions EXCEPT ![system] = loaded]
                   /\ transcript' = [transcript EXCEPT ![r] = "text"]
                   /\ last_access' =
                        IF system = Shared
                        THEN [last_access EXCEPT ![req[r].call_sid] = now]
                        ELSE last_access
                   /\ IF g.raised
                      THEN Return(r, ExceptHandler(req[r].language_hint))
                      ELSE /\ req' = [req EXCEPT ![r] =
                                [@ EXCEPT !.transcribed_text = t.text,
                                          !.detected_language = t.language,
                                          !.transcription_confidence = t.confidence,
                                          !.intent = u.intent,
                                          !.entities = u.entities,
                                          !.nlu_confidence = u.confidence,
                                          !.response_text = g.text]]
                           /\ pc' = [pc EXCEPT ![r] = "response_generated"]
                           /\ UNCHANGED response
    /\ UNCHANGED <<now, calls, applied, call, treatment_database>>

\* tts.synthesize returns, Azure having done tts.  The context is updated
\* and the VoiceResponse assembled and returned.
SynthesizedWith(r, tts) ==
    /\ pc[r] = "response_generated"
    /\    LET audio == synthesize(tts)
              system == req[r].system
              session_id == ContextOf(r).session_id
              record == TurnRecord(now, req[r].transcribed_text, req[r].intent,
                                   req[r].entities, req[r].response_text)
          IN  IF audio.raised
              THEN /\ Return(r, ExceptHandler(req[r].language_hint))
                   /\ UNCHANGED <<active_sessions, applied, last_access>>
              ELSE /\ active_sessions' = [active_sessions EXCEPT ![system] =
                          update_context(@, session_id, req[r].intent,
                                         req[r].entities,
                                         req[r].transcribed_text,
                                         req[r].response_text, now)]
                   /\ applied' =
                        IF system = Shared
                        THEN [applied EXCEPT ![session_id] =
                                Append(@, [request |-> r, record |-> record])]
                        ELSE applied
                   /\ last_access' =
                        IF system = Shared
                        THEN [last_access EXCEPT ![session_id] = now]
                        ELSE last_access
                   /\ Return(r, VoiceResponse(
                          req[r].transcribed_text, req[r].detected_language,
                          req[r].intent, req[r].entities, req[r].response_text,
                          (req[r].transcription_confidence
                              + req[r].nlu_confidence) \div 2,
                          session_id))
    /\ UNCHANGED <<now, calls, transcript, call, treatment_database>>

Synthesized(r) == \E tts \in TtsOutcomes : SynthesizedWith(r, tts)

\* The task of request r is cancelled while it is suspended (the caller hung
\* up): CancelledError is not an Exception, so no handler catches it.
Cancel(r) ==
    /\ pc[r] \in {"received", "response_generated"}
    /\ pc' = [pc EXCEPT ![r] = IF pc[r] = "received"
                               THEN "cancelled_in_transcribe"
                               ELSE "cancelled_in_synthesize"]
    /\ req' = [req EXCEPT ![r] = NoRequest]
    /\ UNCHANGED <<active_sessions, now, calls, response, applied, transcript,
                   last_access, call, treatment_database>>

Next ==
    \E r \in Requests :
        \/ process_voice_input(r)
        \/ Transcribed(r)
        \/ Synthesized(r)
        \/ Cancel(r)

\* Requests on one VoiceProcessingSystem, the clock standing still.
Spec == Init /\ [][Next]_vars

NextReturning ==
    \E r \in Requests :
        \/ process_voice_input(r)
        \/ Transcribed(r)
        \/ Synthesized(r)

\* Requests on one VoiceProcessingSystem whose tasks are never cancelled and
\* whose awaited calls all return: the event loop resumes a task once the
\* call it awaits has returned.
SpecReturning ==
    /\ Init
    /\ [][NextReturning]_vars
    /\ \A r \in Requests : WF_vars(Transcribed(r)) /\ WF_vars(Synthesized(r))

\* The ways Azure's speech synthesis fails.
TtsFailures == {"failed", "raise"}

SynthesizedWithoutAudio(r) == \E tts \in TtsFailures : SynthesizedWith(r, tts)

NextTtsDown ==
    \E r \in Requests :
        \/ process_voice_input(r)
        \/ Transcribed(r)
        \/ SynthesizedWithoutAudio(r)
        \/ Cancel(r)

\* Requests on one VoiceProcessingSystem while every speech synthesis fails.
SpecTtsDown == Init /\ [][NextTtsDown]_vars

\* ------------------------------------------------------------- the clock

\* Half an hour passes.
TickSeconds == session_timeout \div 2

Tick ==
    /\ now < MaxTicks * TickSeconds
    /\ now' = now + TickSeconds
    /\ UNCHANGED <<active_sessions, calls, pc, req, response, applied,
                   transcript, last_access, call, treatment_database>>

NextExpiry == Next \/ Tick

\* Requests on one VoiceProcessingSystem while time passes.
SpecExpiry == Init /\ [][NextExpiry]_vars

\* ------------------------------------------------ handle_twilio_webhook

\* Twilio posts a recording for call_sid: the handler constructs a
\* VoiceProcessingSystem (with a new, empty ConversationManager), downloads
\* the audio and starts process_voice_input on that system with
\* VoiceInput(audio_data, user_id=user_phone, call_sid=call_sid).
handle_twilio_webhook(r) ==
    /\ NextToArrive(r)
    /\ \E call_sid \in SessionIds :
          req' = [req EXCEPT ![r] =
                    [NoRequest EXCEPT !.language_hint = None,
                                      !.user_id = "farmer",
                                      !.call_sid = call_sid,
                                      !.system = r]]
    /\ active_sessions' = [active_sessions EXCEPT ![r] = EmptyDict]
    /\ pc' = [pc EXCEPT ![r] = "received"]
    /\ UNCHANGED <<now, calls, response, applied, transcript, last_access, call, treatment_database>>

\* The download of the audio raises: the handler returns the error TwiML
\* and process_voice_input is never called.
WebhookDownloadFails(r) ==
    /\ NextToArrive(r)
    /\ active_sessions' = [active_sessions EXCEPT ![r] = EmptyDict]
    /\ pc' = [pc EXCEPT ![r] = "webhook_error"]
    /\ UNCHANGED <<now, calls, req, response, applied, transcript, last_access, call, treatment_database>>

NextWebhook ==
    \E r \in Requests :
        \/ handle_twilio_webhook(r)
        \/ WebhookDownloadFails(r)
        \/ Transcribed(r)
        \/ Synthesized(r)
        \/ Cancel(r)

\* Calls handled through the webhook.
SpecWebhook == Init /\ [][NextWebhook]_vars

\* ------------------------------------ components' methods called directly

\* The texts of at most n words over a vocabulary.
Texts(words, n) == UNION {[1..k -> words] : k \in 0..n}

UnchangedPipeline ==
    UNCHANGED <<active_sessions, now, calls, pc, req, response, applied,
                transcript, last_access, treatment_database>>

\* Words of the texts given to the detector: a keyword of each language, a
\* word that has one as a substring, and a word without any.
DetectorWords == {"hi_fasal", "crop", "kn_bele", "farming", "hello"}

\* language_detector.detect_language(text) or
\* language_detector.detect_language(text, audio_features)
CallDetectLanguage ==
    /\ call = NoCall
    /\ \E text \in Texts(DetectorWords, MaxWords),
          langdetect \in LangDetectResults, has_audio \in BOOLEAN :
          call' = [ fn         |-> "detect_language",
                    text       |-> text,
                    langdetect |-> langdetect,
                    has_audio  |-> has_audio,
                    result     |-> detect_language(text, langdetect, has_audio) ]
    /\ UnchangedPipeline

SpecDetector == Init /\ [][CallDetectLanguage]_vars

\* What the speech engines do for the audio of a direct transcribe call.
\* Azure's texts have 5, 4, 3 and 35 characters: confidences 0.55, 0.54,
\* 0.53 and 0.85.
AzureOutcomes ==
    { [result |-> "raise", text |-> <<>>],
      [result |-> "no_match", text |-> <<>>],
      [result |-> "recognized", text |-> <<"hello">>],
      [result |-> "recognized", text |-> <<"pest">>],
      [result |-> "recognized", text |-> <<"hi_keet">>],
      [result |-> "recognized",
       text |-> <<"water", "a", "crops", "seed", "in", "the", "farm", "soil">>] }

AsrCases ==
    [ preprocess : {"ok", "raise"},
      whisper    : {"ok", "raise"},
      text       : {<<>>, <<"hello">>, <<"crop", "rice">>},
      confidence : {400, 500, 550, 700, 900},
      langdetect : {"en", "ta", "raise"},
      azure_key  : BOOLEAN,
      azure      : AzureOutcomes ]

\* asr.transcribe(audio_data, language_hint)
CallTranscribe ==
    /\ call = NoCall
    /\ \E asr \in AsrCases :
          call' = [fn |-> "transcribe", asr |-> asr, result |-> transcribe(asr)]
    /\ UnchangedPipeline

SpecASR == Init /\ [][CallTranscribe]_vars

\* 'I need help with pest damage on my tomato'
PestDamageText ==
    <<"I", "need", "help", "with", "pest", "damage", "on", "my", "tomato">>

\* Words of the texts given to the NLU: keywords of two intents, a capital
\* letter, a crop, a Hindi keyword and a word that is none of these.
NluWords == {"crop", "pest", "Pest", "rice", "hi_keet", "hello"}

NluTexts == Texts(NluWords, MaxWords) \cup {PestDamageText}

\* What the NLU models do in a direct call (see understand).
NluCases ==
    [failure : BOOLEAN, classifier : {"ok", "raise"}, ner : {"ok", "raise"}]

\* nlu.understand(text, language, context), where context.current_intent is
\* current_intent.
CallUnderstand ==
    /\ call = NoCall
    /\ \E text \in NluTexts, language \in Languages \cup {"ta"},
          current_intent \in {"", "crop_advice", "pest_disease"},
          nlu \in NluCases :
          call' = [ fn             |-> "understand",
                    text           |-> text,
                    language       |-> language,
                    current_intent |-> current_intent,
                    nlu            |-> nlu,
                    result         |-> understand(text, language,
                                                  current_intent, nlu) ]
    /\ UnchangedPipeline

SpecNLU == Init /\ [][CallUnderstand]_vars

\* A text holding every English keyword of crop_advice.
AllCropKeywords == <<"crop", "planting", "farming", "growing">>

\* nlu._classify_intent(text, language, context) on a cleaned text, where
\* context.current_intent is current_intent.
CallClassifyIntent ==
    /\ call = NoCall
    /\ \E text \in NluTexts \cup {AllCropKeywords},
          language \in Languages \cup {"ta"},
          current_intent \in {"", "crop_advice", "pest_disease"},
          classifier \in {"ok", "raise"} :
          call' = [ fn             |-> "_classify_intent",
                    text           |-> text,
                    language       |-> language,
                    current_intent |-> current_intent,
                    classifier     |-> classifier,
                    result         |-> _classify_intent(text, language,
                                           current_intent, classifier) ]
    /\ UnchangedPipeline

SpecIntent == Init /\ [][CallClassifyIntent]_vars

\* Engine outputs for the confidences of one turn: Whisper's confidence at
\* both ends of [0,1] and in between, with and without the Azure backup.
ConfidenceCases ==
    [ preprocess : {"ok", "raise"},
      whisper    : {"ok"},
      text       : {<<>>, <<"pest">>, AllCropKeywords},
      confidence : {0, 400, 1000},
      langdetect : {"en"},
      azure_key  : BOOLEAN,
      azure      : AzureOutcomes ]

\* The confidences process_voice_input computes for one turn: those of
\* transcribe and understand and their mean, or 0.0 of the error response
\* when the transcription is empty.
CallTurnConfidences ==
    /\ call = NoCall
    /\ \E asr \in ConfidenceCases, nlu \in NluCases,
          current_intent \in {"", "crop_advice", "pest_disease"} :
          LET transcription == transcribe(asr)
              understood == understand(transcription.text,
                                       transcription.language,
                                       current_intent, nlu)
              classified ==
                  _classify_intent(
                      _preprocess_text(transcription.text,
                                       transcription.language),
                      transcription.language, current_intent, nlu.classifier)
          IN  call' =
                IF transcription.text = <<>>
                THEN [ fn |-> "confidences", asr |-> asr, nlu |-> nlu,
                       current_intent |-> current_intent,
                       transcription |-> transcription,
                       understood |-> FALSE,
                       confidence_score |->
                           _create_error_response("en").confidence_score ]
                ELSE [ fn |-> "confidences", asr |-> asr, nlu |-> nlu,
                       current_intent |-> current_intent,
                       transcription |-> transcription,
                       understood |-> TRUE,
                       intent_confidence |-> classified.confidence,
                       nlu_confidence |-> understood.confidence,
                       confidence_score |->
                           (transcription.confidence + understood.confidence)
                               \div 2 ]
    /\ UnchangedPipeline

SpecConfidence == Init /\ [][CallTurnConfidences]_vars

\* Pests the model finds on the one image of a predict call with a
\* probability of at least 0.1, most probable first (at most three).
Detections ==
    { <<>>, <<"Aphids">>, <<"Thrips">>, <<"Aphids", "Whitefly">>,
      <<"Whitefly", "Thrips", "Aphids">> }

SeverityLevels == {"low", "medium", "high", "critical"}

WeatherConditions == [humidity : {50, 90}, rainfall : {0, 20}]

\* PestDetectionModel.predict(detection_input) on one image.  call.n counts
\* the predict calls made.
CallPredict ==
    /\ \/ call = NoCall
       \/ call.fn = "predict" /\ call.n < MaxPredicts
    /\ \E pests \in Detections, severity \in SeverityLevels,
          weather_conditions \in WeatherConditions :
          LET predicted == PredictResults(treatment_database, pests, severity,
                                          weather_conditions)
          IN  /\ treatment_database' = predicted.database
              /\ call' = [ fn       |-> "predict",
                           n        |-> IF call = NoCall THEN 1 ELSE call.n + 1,
                           pests    |-> pests,
                           severity |-> severity,
                           weather_conditions |-> weather_conditions,
                           results  |-> SubSeq(predicted.results, 1,
                                               Min(3, Len(predicted.results))) ]
    /\ UNCHANGED <<active_sessions, now, calls, pc, req, response, applied,
                   transcript, last_access>>

SpecPest == Init /\ [][CallPredict]_vars

\* Intents passed to the response generator: those it has a branch for and
\* one it has none for.
ResponseIntents ==
    {"greeting", "crop_advice", "pest_disease", "weather", "market_price",
     "general_query", "fertilizer"}

\* Entity maps passed to the response generator.
ResponseEntities ==
    { EmptyDict,
      [k \in {"crops"} |-> <<[value |-> "rice", confidence |-> 800]>>],
      [k \in {"crops"} |-> <<[value |-> "tomato", confidence |-> 800],
                             [value |-> "rice", confidence |-> 800]>>] }

\* conversation_history of the context passed: of a new session, or after
\* one turn.
ResponseHistories ==
    { <<>>,
      <<TurnRecord(0, <<"hello">>, "general_query", EmptyDict,
                   <<"greeting", "en">>)>> }

\* voice_system._generate_response(intent, entities, context, language)
CallGenerateResponse ==
    /\ call = NoCall
    /\ \E intent \in ResponseIntents, entities \in ResponseEntities,
          history \in ResponseHistories, language \in Languages \cup {"ta"} :
          call' = [ fn       |-> "_generate_response",
                    intent   |-> intent,
                    entities |-> entities,
                    history  |-> history,
                    language |-> language,
                    result   |-> _generate_response(intent, entities, history,
                                                    language) ]
    /\ UnchangedPipeline

SpecResponse == Init /\ [][CallGenerateResponse]_vars

\* Steps 3 and 4 of process_voice_input on a context with the given history:
\* the response is generated from what understand returned.
GenerateForUnderstood ==
    /\ call.fn = "understand"
    /\ \E history \in ResponseHistories :
          call' = [ fn             |-> "turn",
                    text           |-> call.text,
                    language       |-> call.language,
                    current_intent |-> call.current_intent,
                    nlu            |-> call.nlu,
                    understood     |-> call.result,
                    history        |-> history,
                    result         |-> _generate_response(
                                           call.result.intent,
                                           call.result.entities,
                                           history, call.language) ]
    /\ UnchangedPipeline

SpecTurn == Init /\ [][CallUnderstand \/ GenerateForUnderstood]_vars

\* ------------------------------------------------------------------ claims

\* C1: after N successful update_context calls on a session, its
\* conversation_history has length min(N, 10) and holds the N most recent
\* turn records (the last 10 when N > 10) in the order they were applied.
C1_HistoryIsMostRecentTurns ==
    \A s \in SessionIds :
        LET n == Len(applied[s]) IN
        IF s \in DOMAIN active_sessions[Shared]
        THEN LET h == active_sessions[Shared][s].conversation_history IN
             /\ Len(h) = Min(n, 10)
             /\ \A i \in 1..Len(h) : h[i] = applied[s][n - Len(h) + i].record
        ELSE n = 0

\* An eleventh turn has been applied to a session whose turns differ.
C1_Witness ==
    \E s \in SessionIds :
        /\ Len(applied[s]) = 11
        /\ applied[s][1].record # applied[s][2].record
        /\ Len(active_sessions[Shared][s].conversation_history) = 10

\* C7: update_context with a session id that is not in the store leaves the
\* store unchanged: no session is created, no existing context is modified.
C7_UpdateUnknownSessionIsNoOp ==
    [][\A s \in SessionIds, t \in ManagerTurns :
          (s \notin DOMAIN active_sessions[Shared] /\ CallUpdateOn(s, t))
              => active_sessions' = active_sessions]_vars

\* Calls were made and the store is still empty, so every one of them was an
\* update_context for an unknown session id.
C7_Witness ==
    /\ calls > 0
    /\ DOMAIN active_sessions[Shared] = {}

\* C2: a context idle for longer than session_timeout is never returned by
\* get_or_create_context: the request gets a fresh context, with empty
\* history, no entities and no current intent.
C2_ExpiredContextNeverReturned ==
    [][\A r \in Requests :
          LET sid == req[r].call_sid IN
          ( /\ pc[r] = "received"
            /\ transcript'[r] = "text"
            /\ req[r].system = Shared
            /\ sid \in DOMAIN active_sessions[Shared]
            /\ now - last_access[sid] > session_timeout )
          => /\ active_sessions'[Shared][sid].conversation_history = <<>>
             /\ active_sessions'[Shared][sid].entities = EmptyDict
             /\ active_sessions'[Shared][sid].current_intent = ""]_vars

\* C3: the store is written only by the CONTEXT_UPDATED stage: every step
\* that changes the set of sessions or a field of a context is the
\* update_context of a request whose response is complete.
C3_ContextWrittenOnlyByUpdateStage ==
    [][active_sessions'[Shared] # active_sessions[Shared]
          => \E r \in Requests :
                pc[r] = "response_generated" /\ pc'[r] = "done"]_vars

\* C4: two requests of one session are never both between their context
\* load and their update_context.
C4_SameSessionTurnsDoNotOverlap ==
    \A r1, r2 \in Requests :
        ( /\ r1 # r2
          /\ pc[r1] = "response_generated"
          /\ pc[r2] = "response_generated"
          /\ req[r1].system = req[r2].system )
        => req[r1].call_sid # req[r2].call_sid

\* C5: per-session FIFO: the turn records of a session are in the order in
\* which their requests arrived.
C5_TurnsRecordedInArrivalOrder ==
    \A s \in SessionIds :
        \A i, j \in 1..Len(applied[s]) :
            i < j => applied[s][i].request < applied[s][j].request

\* C6: session state persists between webhook calls: once a call's turn is
\* done, the context a later call of the same call_sid works on holds that
\* turn's record, and its current intent when no other turn came between.
C6_WebhookContextPersists ==
    \A r1, r2 \in Requests :
        ( /\ r1 < r2
          /\ pc[r1] = "done"
          /\ pc[r2] = "response_generated"
          /\ response[r1].context_updated = req[r2].call_sid )
        => LET context == ContextOf(r2)
               h == context.conversation_history
           IN  /\ \E i \in 1..Len(h) :
                     /\ h[i].user_input = response[r1].transcribed_text
                     /\ h[i].intent = response[r1].intent
                     /\ h[i].response = response[r1].response_text
               /\ (\A r3 \in Requests \ {r1} : pc[r3] # "done")
                     => context.current_intent = response[r1].intent

\* C8: a request ends in ERROR if and only if its transcription is empty; a
\* request with a transcribed text goes on to a non-error response whatever
\* the NLU, the response generation and the TTS do.
C8_ErrorIffTranscriptionEmpty ==
    \A r \in Requests :
        /\ pc[r] = "error" <=> transcript[r] = "empty"
        /\ transcript[r] = "text"
              => pc[r] \in {"response_generated", "done",
                            "cancelled_in_synthesize"}
        /\ pc[r] = "done" => response[r].intent # "error"

\* One request failed on an empty transcription and another, whose NLU
\* failed on a Hindi text, is done.
C8_Witness ==
    \E r1, r2 \in Requests :
        /\ pc[r1] = "error" /\ transcript[r1] = "empty"
        /\ pc[r2] = "done" /\ transcript[r2] = "text"
        /\ response[r2].transcribed_text = <<"hi_keet">>
        /\ response[r2].intent = "general_query"

\* C9: the error response carries the error template in the best-known
\* language (the hint when given, else 'en'), confidence 0.0 and an empty
\* context snapshot.
C9_ErrorResponseInBestKnownLanguage ==
    [][\A r \in Requests :
          ( /\ pc[r] = "received" /\ pc'[r] = "error"
            /\ req[r].language_hint \in Languages \cup {None} )
          => /\ response'[r].response_text =
                    <<"error", OrElse(req[r].language_hint, "en")>>
             /\ response'[r].confidence_score = 0
             /\ response'[r].context_updated = None]_vars

\* C10: process_voice_input always returns a VoiceResponse; no exception
\* reaches its caller, whatever the collaborators do.
C10_AlwaysStructuredResponse ==
    \A r \in Requests :
        /\ pc[r] # "raised"
        /\ pc[r] \in {"done", "error"}
              => /\ ~response[r].raised
                 /\ response[r].response_text # <<>>

\* The speech engines failed for one request, which got the error response,
\* and the NLU failed for another, which got a general reply.
C10_Witness ==
    \E r1, r2 \in Requests :
        /\ pc[r1] = "error"
        /\ response[r1].response_text = <<"error", "en">>
        /\ pc[r2] = "done"
        /\ response[r2].transcribed_text = <<"crop", "pest", "rice">>
        /\ response[r2].intent = "general_query"

\* C11: the language code is always one of hi, en, kn: the detected_language
\* of every VoiceResponse, success or error, the language a request works
\* with, and the language of every stored context, whatever the hint.
C11_LanguageAlwaysSupported ==
    /\ \A r \in Requests :
          /\ pc[r] \in {"done", "error"}
                => response[r].detected_language \in Languages
          /\ pc[r] = "response_generated"
                => req[r].detected_language \in Languages
    /\ \A y \in Systems : \A s \in DOMAIN active_sessions[y] :
          active_sessions[y][s].language \in Languages

\* A request with the unsupported hint 'ta', whose text langdetect took for
\* Tamil, works in 'en', and another request got the error response.
C11_Witness ==
    \E r1, r2 \in Requests :
        /\ pc[r1] = "response_generated"
        /\ req[r1].language_hint = "ta"
        /\ req[r1].transcribed_text = <<"hello">>
        /\ ContextOf(r1).language = "en"
        /\ pc[r2] = "error"
        /\ response[r2].detected_language = "en"

\* Whether text contains a keyword of language's keyword list.
HasKeywordOf(language, text) ==
    \E k \in language_keywords[language] : Occurs(k, text)

\* C12 as stated: for every supported language L and every text containing
\* a keyword of L, detect_language returns L, with or without audio
\* features.
C12_KeywordDecidesLanguage ==
    call.fn = "detect_language"
    => \A L \in Languages : HasKeywordOf(L, call.text) => call.result = L

\* C12 amended: for every supported language L and every text containing a
\* keyword of L and no keyword of a language listed before L (hi, en, kn),
\* detect_language returns L, with or without audio features.
C12_FirstKeywordLanguageDecides ==
    call.fn = "detect_language"
    => \A i \in 1..Len(LanguageOrder) :
          ( /\ HasKeywordOf(LanguageOrder[i], call.text)
            /\ \A j \in 1..(i - 1) : ~HasKeywordOf(LanguageOrder[j], call.text) )
          => call.result = LanguageOrder[i]

\* The detector was given audio features and a text with a Kannada keyword
\* next to a word without keywords, and returned 'kn'.
C12_Witness ==
    /\ call.fn = "detect_language"
    /\ call.has_audio
    /\ call.text = <<"hello", "kn_bele">>
    /\ call.result = "kn"

\* C13: when both engines' calls succeed or are not made, transcribe returns
\* the secondary engine's text and confidence exactly when the primary
\* confidence is below 0.7, a secondary engine is configured and the
\* secondary confidence is strictly greater; otherwise the primary's.
C13_SecondaryReplacesOnlyWhenBetter ==
    ( /\ call.fn = "transcribe"
      /\ call.asr.preprocess = "ok" /\ call.asr.whisper = "ok" )
    => LET asr == call.asr
           secondary_confidence ==
               IF asr.azure.result = "recognized"
               THEN Min(900, CharLen(asr.azure.text) * 10 + 500)
               ELSE 0
           replaced == /\ asr.confidence < 700
                       /\ asr.azure_key
                       /\ secondary_confidence > asr.confidence
       IN  IF replaced
           THEN /\ call.result.text = asr.azure.text
                /\ call.result.confidence = secondary_confidence
           ELSE /\ call.result.text = asr.text
                /\ call.result.confidence = asr.confidence

\* Primary confidence 0.5, secondary configured and returning a text of 35
\* characters (confidence 0.85): the result is the secondary's.
C13_Witness ==
    /\ call.fn = "transcribe"
    /\ call.asr.preprocess = "ok" /\ call.asr.whisper = "ok"
    /\ call.asr.confidence = 500
    /\ call.asr.text = <<"hello">>
    /\ call.asr.azure_key
    /\ call.result.confidence = 850
    /\ call.result.text = call.asr.azure.text
    /\ call.result.text # call.asr.text

\* C14: when the primary engine raises and a configured secondary engine
\* recognizes the speech, transcribe returns the secondary's text (and the
\* request does not end in ERROR).
C14_PrimaryFailureRecoveredBySecondary ==
    ( /\ call.fn = "transcribe"
      /\ call.asr.preprocess = "ok"
      /\ call.asr.whisper = "raise"
      /\ call.asr.azure_key
      /\ call.asr.azure.result = "recognized" )
    => /\ call.result.text = call.asr.azure.text
       /\ call.result.text # <<>>

\* C15: transcribe never propagates an exception; a failure of the audio
\* preprocessing or of the primary engine yields exactly ("", "en", 0.0),
\* and a failure of the secondary engine leaves the primary's text, language
\* and confidence as the result.
C15_TranscribeNeverRaises ==
    call.fn = "transcribe"
    => LET asr == call.asr IN
       /\ ~call.result.raised
       /\ (asr.preprocess = "raise" \/ asr.whisper = "raise")
             => /\ call.result.text = <<>>
                /\ call.result.language = "en"
                /\ call.result.confidence = 0
       /\ ( /\ asr.preprocess = "ok" /\ asr.whisper = "ok"
            /\ asr.azure.result = "raise" )
             => /\ call.result.text = asr.text
                /\ call.result.confidence = asr.confidence
                /\ call.result.language =
                      detect_language(asr.text, asr.langdetect, FALSE)

\* The secondary engine was consulted (primary confidence 0.4, key set) and
\* raised: the primary's result stands.
C15_Witness ==
    /\ call.fn = "transcribe"
    /\ call.asr.preprocess = "ok" /\ call.asr.whisper = "ok"
    /\ call.asr.confidence = 400
    /\ call.asr.azure_key
    /\ call.asr.azure.result = "raise"
    /\ call.asr.text = <<"crop", "rice">>
    /\ call.result.text = <<"crop", "rice">>
    /\ call.result.confidence = 400

\* Whether text contains a keyword of some intent's list, in any language.
HasIntentKeyword(text) ==
    \E intent \in DOMAIN multilingual_keywords :
        \E language \in DOMAIN multilingual_keywords[intent] :
            \E k \in 1..Len(multilingual_keywords[intent][language]) :
                Occurs(multilingual_keywords[intent][language][k], text)

\* C16: for a text without any intent keyword, when the fallback classifier
\* fails, understand returns general_query with confidence exactly 0.5.
C16_ClassifierFailureGivesHalfConfidence ==
    ( /\ call.fn = "understand"
      /\ call.text # <<>>
      /\ ~HasIntentKeyword(_preprocess_text(call.text, call.language))
      /\ call.nlu.classifier = "raise" )
    => /\ call.result.intent = "general_query"
       /\ call.result.confidence = 500

\* C17: update_context merges entities by appending: every value a turn of
\* the session stored under an entity type is still in the accumulated
\* context.entities list of that type; a later turn's values never replace
\* it.
C17_EntitiesAccumulate ==
    \A s \in DOMAIN active_sessions[Shared] :
        \A i \in 1..Len(applied[s]) :
            LET turn == applied[s][i].record.entities
                accumulated == active_sessions[Shared][s].entities
            IN  \A k \in DOMAIN turn :
                    /\ k \in DOMAIN accumulated
                    /\ \A n \in 1..Len(turn[k]) :
                          \E m \in 1..Len(accumulated[k]) :
                              accumulated[k][m].value = turn[k][n].value

\* C18: for intent crop_advice with a non-empty 'crops' list the generated
\* response interpolates the first crop value, in every context, also on the
\* first turn of a session (empty history).
C18_CropAdviceNamesFirstCrop ==
    ( /\ call.fn = "_generate_response"
      /\ call.intent = "crop_advice"
      /\ call.language \in Languages
      /\ "crops" \in DOMAIN call.entities
      /\ call.entities["crops"] # <<>> )
    => /\ ~call.result.raised
       /\ \E i \in 1..Len(call.result.text) :
             call.result.text[i] = call.entities["crops"][1].value

\* C19: the text 'I need help with pest damage on my tomato' in 'en', on a
\* session with empty history, is understood as pest_disease with crops
\* [tomato], and the response is the pest-disease template.
C19_PestDamageScenario ==
    ( /\ call.fn = "turn"
      /\ call.text = PestDamageText
      /\ call.language = "en"
      /\ call.history = <<>>
      /\ call.current_intent = ""
      /\ call.nlu = [failure |-> FALSE, classifier |-> "ok", ner |-> "ok"] )
    => /\ call.understood.intent = "pest_disease"
       /\ "crops" \in DOMAIN call.understood.entities
       /\ Len(call.understood.entities["crops"]) = 1
       /\ call.understood.entities["crops"][1].value = "tomato"
       /\ ~call.result.raised
       /\ call.result.text = <<"pest", "en">>

\* C20: _generate_response is total: for every intent, entity map, history
\* and language it returns non-empty text without raising, and for a
\* language outside hi, en, kn the 'en' text of the selected branch.
C20_ResponseGeneratorTotal ==
    call.fn = "_generate_response"
    => /\ ~call.result.raised
       /\ call.result.text # <<>>
       /\ call.language \notin Languages => call.result.text[2] = "en"

\* C21: synthesize never raises and returns empty bytes on a failure, which
\* the orchestrator takes for 'no audio': a request whose synthesis fails
\* still reaches DONE with a non-error response and its turn is recorded in
\* the session's context.
C21_TtsFailureStillDone ==
    /\ \A tts \in TtsFailures : synthesize(tts).audio = ""
    /\ \A r \in Requests :
          /\ transcript[r] = "text"
                => pc[r] \in {"response_generated", "done",
                              "cancelled_in_synthesize"}
          /\ pc[r] = "done"
                => /\ response[r].intent # "error"
                   /\ response[r].response_text # <<>>
                   /\ \E i \in 1..Len(applied[response[r].context_updated]) :
                         LET turn == applied[response[r].context_updated][i]
                         IN  /\ turn.request = r
                             /\ turn.record.user_input =
                                    response[r].transcribed_text
                             /\ turn.record.response = response[r].response_text
                             /\ turn.record \in
                                  { active_sessions[Shared]
                                        [response[r].context_updated]
                                        .conversation_history[j] :
                                    j \in 1..Len(active_sessions[Shared]
                                        [response[r].context_updated]
                                        .conversation_history) }

\* Both requests are done although every synthesis failed, and the session
\* holds both turns.
C21_Witness ==
    /\ \A r \in Requests : pc[r] = "done"
    /\ \E s \in DOMAIN active_sessions[Shared] :
          Len(active_sessions[Shared][s].conversation_history) = MaxRequests

\* C22: every confidence the pipeline produces lies in [0,1] (0..1000
\* thousandths): the transcription confidence, primary or secondary, the
\* intent confidence, the overall NLU confidence and the confidence_score
\* of the response, with the 1.2 continuity boost applied.
C22_ConfidencesInUnitInterval ==
    call.fn = "confidences"
        => /\ call.transcription.confidence \in 0..1000
           /\ call.confidence_score \in 0..1000
           /\ call.understood
                => /\ call.intent_confidence \in 0..1000
                   /\ call.nlu_confidence \in 0..1000

\* All four keywords of the current intent occur, so its boosted score is
\* 1.2, and the transcription is Whisper's with confidence 1.0.
C22_Witness ==
    /\ call.fn = "confidences"
    /\ call.understood
    /\ call.current_intent = "crop_advice"
    /\ call.transcription.text = AllCropKeywords
    /\ ~call.nlu.failure
    /\ call.transcription.confidence = 1000
    /\ call.intent_confidence = 900
    /\ call.confidence_score = 960

\* C23: predict is a pure read: after any sequence of predict calls, with
\* any severity and weather, the treatment database equals its initial
\* content.
C23_PredictLeavesTreatmentDatabase ==
    treatment_database = _load_treatment_database

\* C24: intent classification returns the reference result: an intent's
\* score is the share of its keywords for the language that occur in the
\* text, intents without a hit are excluded, the current intent's score is
\* multiplied by 1.2, the highest adjusted score wins with ties going to the
\* earlier intent of the enumeration (crop_advice before pest_disease), and
\* the confidence is min(0.9, winning score).
C24_ClassificationIsReference ==
    call.fn = "_classify_intent"
        => LET kw(i) == KeywordsFor(IntentOrder[i], call.language)
               hits(i) == Cardinality({k \in 1..Len(kw(i)) :
                                          Occurs(kw(i)[k], call.text)})
               adjusted(i) ==
                   IF IntentOrder[i] = call.current_intent
                   THEN (hits(i) * 1200) \div Len(kw(i))
                   ELSE (hits(i) * 1000) \div Len(kw(i))
               scored == {i \in 1..Len(IntentOrder) : hits(i) > 0}
           IN  IF scored = {}
               THEN call.result.intent \notin
                        {IntentOrder[i] : i \in 1..Len(IntentOrder)}
               ELSE \E w \in scored :
                       /\ call.result.intent = IntentOrder[w]
                       /\ call.result.confidence = Min(900, adjusted(w))
                       /\ \A j \in scored :
                             /\ adjusted(j) <= adjusted(w)
                             /\ adjusted(j) = adjusted(w) => w <= j

\* One keyword of each intent occurs and no intent is current: the scores
\* tie at 0.25 and crop_advice is returned.
C24_Witness ==
    /\ call.fn = "_classify_intent"
    /\ call.text = <<"pest", "crop">>
    /\ call.language = "en"
    /\ call.current_intent = ""
    /\ call.result = [intent |-> "crop_advice", confidence |-> 250]

\* C25: each request passes the stages in order in a single pass: every
\* step moves exactly one request one stage forward (received, then the
\* stages up to the generated response, then done) or ends it with the
\* error response, no stage is repeated, the context update is made at most
\* once per request, and every received request eventually is done or has
\* ended in error, provided each awaited call returns.
C25_SinglePassInOrder ==
    /\ [][\E r \in Requests :
             /\ \A q \in Requests \ {r} : pc'[q] = pc[q]
             /\ <<pc[r], pc'[r]>> \in
                   { <<"idle", "received">>,
                     <<"received", "response_generated">>,
                     <<"received", "error">>,
                     <<"response_generated", "done">>,
                     <<"response_generated", "error">> }]_vars
    /\ [](\A r \in Requests :
             Cardinality({ <<s, i>> \in SessionIds \X (1..MaxRequests) :
                             /\ i <= Len(applied[s])
                             /\ applied[s][i].request = r }) <= 1)
    /\ \A r \in Requests :
          (pc[r] = "received") ~> (pc[r] \in {"done", "error"})

\* One request is done and another has ended in error.
C25_Witness ==
    \E r1, r2 \in Requests :
        /\ pc[r1] = "done" /\ transcript[r1] = "text"
        /\ pc[r2] = "error" /\ transcript[r2] = "empty"

\* C26: the context snapshot of a successful VoiceResponse is the state
\* after the update: when the response is returned, the context it refers
\* to has a history ending with the record of this turn (the response's
\* input text, intent and response text) and the response's intent as its
\* current intent.
C26_SnapshotIsPostUpdate ==
    [][\A r \in Requests :
          (pc[r] # "done" /\ pc'[r] = "done")
              => /\ response'[r].context_updated \in
                        DOMAIN active_sessions'[Shared]
                 /\ LET context == active_sessions'[Shared]
                                       [response'[r].context_updated]
                        history == context.conversation_history
                    IN  /\ history # <<>>
                        /\ history[Len(history)].user_input =
                               response'[r].transcribed_text
                        /\ history[Len(history)].intent = response'[r].intent
                        /\ history[Len(history)].response =
                               response'[r].response_text
                        /\ context.current_intent = response'[r].intent]_vars

\* Two requests on one session are done with different intents; the context
\* holds both turns and the current intent is that of the last one.
C26_Witness ==
    \E r1, r2 \in Requests :
        /\ pc[r1] = "done" /\ pc[r2] = "done"
        /\ response[r1].context_updated = response[r2].context_updated
        /\ response[r1].intent # response[r2].intent
        /\ LET context == active_sessions[Shared][response[r2].context_updated]
           IN  /\ Len(context.conversation_history) = 2
               /\ context.current_intent = response[r2].intent

\* C27: get_or_create_context on a session id of the store returns that
\* context with only its language set to the supplied language (user id,
\* current intent, entities and history unchanged), and on an absent id
\* registers exactly one new context with empty history, entities and
\* current intent; no other session is added, removed or changed.  Stated
\* for the load a request makes once its transcription is there.
C27_LoadChangesOnlyLanguage ==
    [][\A r \in Requests :
          (pc[r] = "received" /\ pc'[r] = "response_generated")
              => LET s == req[r].call_sid
                     old == active_sessions[Shared]
                     new == active_sessions'[Shared]
                 IN  /\ DOMAIN new = (DOMAIN old) \cup {s}
                     /\ \A o \in (DOMAIN old) \ {s} : new[o] = old[o]
                     /\ new[s].language = req'[r].detected_language
                     /\ new[s].session_id = s
                     /\ IF s \in DOMAIN old
                        THEN new[s] = [old[s] EXCEPT
                                          !.language = req'[r].detected_language]
                        ELSE /\ new[s].conversation_history = <<>>
                             /\ new[s].entities = EmptyDict
                             /\ new[s].current_intent = ""
                             /\ new[s].user_id =
                                    OrElse(req[r].user_id, "anonymous")]_vars

\* A request has loaded, in its own language, the context of a session on
\* which a turn in another language is recorded.
C27_Witness ==
    \E r1, r2 \in Requests :
        /\ pc[r1] = "done"
        /\ pc[r2] = "response_generated"
        /\ response[r1].context_updated = req[r2].call_sid
        /\ response[r1].detected_language # req[r2].detected_language
        /\ LET context == active_sessions[Shared][req[r2].call_sid]
           IN  /\ context.language = req[r2].detected_language
               /\ context.conversation_history # <<>>
               /\ context.current_intent # ""

\* C28: the language transcribe returns is the Language Detector's result
\* on the text transcribe returns, also when the secondary engine's text
\* has replaced the primary's.
C28_LanguageIsDetectedOnReturnedText ==
    (/\ call.fn = "transcribe"
     /\ call.result.text # <<>>)
        => \E langdetect \in LangDetectResults :
              call.result.language =
                  detect_language(call.result.text, langdetect, FALSE)

\* C29: a request that ends in the error response because its
\* transcription is empty leaves the context store as it was: no session is
\* created for its id and no field of an existing context, its language
\* included, is changed.
C29_EmptyTranscriptionLeavesStore ==
    [][\A r \in Requests :
          (pc[r] = "received" /\ transcript'[r] = "empty")
              => /\ pc'[r] = "error"
                 /\ active_sessions' = active_sessions]_vars

\* A request has ended in error on an empty transcription, in a language
\* other than that of the existing context of its session, which holds a
\* turn.
C29_Witness ==
    \E r1, r2 \in Requests :
        /\ pc[r1] = "done"
        /\ pc[r2] = "error" /\ transcript[r2] = "empty"
        /\ LET context == active_sessions[Shared][response[r1].context_updated]
           IN  /\ context.language # response[r2].detected_language
               /\ context.conversation_history # <<>>

\* C30: the context snapshot of a VoiceResponse already returned is not
\* changed by later turns: what the response's context_updated shows
\* (history, current intent, entities, language) stays as it was when the
\* response was assembled.
C30_ReturnedSnapshotIsStable ==
    [][\A r \in Requests :
          pc[r] = "done"
              => active_sessions'[Shared][response[r].context_updated]
                     = active_sessions[Shared][response[r].context_updated]]_vars

====
